---- MODULE Spec2Model ----
(***************************************************************************)
(* Model of the solanum library: the reference-counted singly linked Node, *)
(* the Stack built on it (src/src/stack.rs) and the Queue shell            *)
(* (src/src/queue.rs); and the stand-alone ImmutableNode                   *)
(* (src/src/node/unidirectional.rs) with its derived equality.             *)
(*                                                                         *)
(* The heap is a pool of node cells.  Every Rc<Node<T>> is a node id; the  *)
(* strong count of a cell is kept by the Rc operations the code performs   *)
(* (RcNew, RcClone, RcDrop), never recomputed from the structure.          *)
(***************************************************************************)
EXTENDS Integers, Sequences, FiniteSets, TLC

\* ---------------------------------------------------------------- bounds
MaxNodes == 2
NumVals == 3
MaxQueue == 3
MaxINodes == 4
NumIVals == 2

Nodes == 1..MaxNodes
Values == {100 * i : i \in 1..NumVals}
Stacks == {"A", "B"}
INodes == 1..MaxINodes
IValues == {100 * i : i \in 1..NumIVals}

\* Option::None, for an absent node reference and for an absent value.
None == 0

VARIABLES
    heap,     \* node id -> [value, next, strong, live]
    head,     \* Stack.head of each stack slot (None when empty)
    scope,    \* whether the stack variable of each slot is in scope
    ext,      \* node ids held by a `let node = Rc::new(..)` binding
    last,     \* the last operation called and what it returned
    model,    \* history: reference LIFO sequence of each stack
    hist,     \* history: values pushed since Stack::empty()
    rt,       \* history: what a stack looked like right before its last push
    qhead,    \* Queue.head
    qtail,    \* Queue.tail
    qheap,    \* queue node id -> [value, next, live]
    qmodel,   \* values enqueued and not yet dequeued, oldest first
    qlast,    \* the last queue operation and what it returned
    inodes,   \* ImmutableNode id -> [value, next, strong, live]
    ilast     \* the last ImmutableNode operation and what it returned

stackVars == <<heap, head, scope, ext, last, model, hist, rt>>
queueVars == <<qhead, qtail, qheap, qmodel, qlast>>
nodeVars == <<inodes, ilast>>
vars == <<heap, head, scope, ext, last, model, hist, rt,
          qhead, qtail, qheap, qmodel, qlast, inodes, ilast>>

\* ------------------------------------------------------------- the heap
FreeCell == [value |-> None, next |-> None, strong |-> 0, live |-> FALSE]

\* The address the allocator hands out: the lowest free cell.
FreshNode(H) == CHOOSE n \in Nodes :
                    /\ ~H[n].live
                    /\ \A m \in Nodes : ~H[m].live => n <= m

HasFree(H) == \E n \in Nodes : ~H[n].live

\* Node::new(value): a tail node.
Node_new(v) == [value |-> v, next |-> None]

\* Rc::new(node): allocate the node with a strong count of 1.
RcNew(H, n, node) ==
    [H EXCEPT ![n] = [value |-> node.value, next |-> node.next,
                      strong |-> 1, live |-> TRUE]]

\* Rc::clone(&n): one more strong reference.
RcClone(H, n) == [H EXCEPT ![n].strong = @ + 1]

\* Dropping one Rc handle to n: the count goes down by one; at zero the node
\* is reclaimed and its own `next` handle is dropped in turn.
RECURSIVE RcDrop(_, _)
RcDrop(H, n) ==
    IF H[n].strong > 1
    THEN [H EXCEPT ![n].strong = @ - 1]
    ELSE LET nx == H[n].next
             H1 == [H EXCEPT ![n] = FreeCell]
         IN  IF nx = None THEN H1 ELSE RcDrop(H1, nx)

\* Variant of new_with_next: the handle passed in is never released.
new_with_next_keeps(H, v, next_node) ==
    [heap |-> RcClone(H, next_node), node |-> [value |-> v, next |-> next_node]]

\* Node::new_with_next(value, next_node): next_node is taken by value, cloned
\* into the `next` field and dropped when the function returns.
new_with_next(H, v, next_node) ==
    LET H1 == RcClone(H, next_node)
        H2 == RcDrop(H1, next_node)
    IN  [heap |-> H2, node |-> [value |-> v, next |-> next_node]]

\* ------------------------------------------------------------ the Stack
is_empty(hd) == hd = None

\* Stack::empty()
Stack_empty == None

\* Stack::new(value)
Stack_new(H, v) ==
    LET n == FreshNode(H)
    IN  [heap |-> RcNew(H, n, Node_new(v)), head |-> n]

RECURSIVE size_loop(_, _, _)
size_loop(H, node_pointer, sz) ==
    IF node_pointer = None THEN sz
    ELSE size_loop(H, H[node_pointer].next, sz + 1)

\* Variant of size: the counter starts at 1.
size_from_one(H, hd) == IF hd = None THEN 0 ELSE size_loop(H, hd, 1)

size(H, hd) == IF is_empty(hd) THEN 0 ELSE size_loop(H, hd, 0)

\* The loop of size() and to_list(), `while let Some(node) = node_pointer
\* { ..; node_pointer = &node.next }`, run for at most `fuel` iterations: the
\* nodes it visited, in order, and the pointer it stopped at.
RECURSIVE walk_loop(_, _, _, _)
walk_loop(H, node_pointer, visited, fuel) ==
    IF node_pointer = None \/ fuel = 0
    THEN [visited |-> visited, rest |-> node_pointer]
    ELSE walk_loop(H, H[node_pointer].next, Append(visited, node_pointer),
                   fuel - 1)

\* Variant of peek: reads the node after the head when there is one.
peek_next(H, hd) ==
    IF hd = None THEN None
    ELSE IF H[hd].next = None THEN H[hd].value ELSE H[H[hd].next].value

peek(H, hd) == IF is_empty(hd) THEN None ELSE H[hd].value

RECURSIVE to_list_loop(_, _, _)
to_list_loop(H, node_pointer, list) ==
    IF node_pointer = None THEN list
    ELSE to_list_loop(H, H[node_pointer].next,
                      Append(list, H[node_pointer].value))

to_list(H, hd) == to_list_loop(H, hd, <<>>)

\* Variant of push: the non-empty branch repeats the empty one, so the new
\* node is not linked to the previous head, which is released.
push_unlinked(H, hd, v) ==
    LET H1 == IF hd = None THEN H ELSE RcDrop(H, hd)
        n == FreshNode(H1)
    IN  [heap |-> RcNew(H1, n, Node_new(v)), head |-> n]

push(H, hd, v) ==
    IF is_empty(hd)
    THEN LET n == FreshNode(H)
         IN  [heap |-> RcNew(H, n, Node_new(v)), head |-> n]
    ELSE LET head_node == hd
             r == new_with_next(H, v, head_node)
             n == FreshNode(r.heap)
         IN  [heap |-> RcNew(r.heap, n, r.node), head |-> n]

\* Variants of pop.
\* The head is read but never replaced.
pop_keeps_head(H, hd) ==
    IF hd = None THEN [heap |-> H, head |-> hd, ret |-> None]
    ELSE [heap |-> H, head |-> hd, ret |-> H[hd].value]

\* Both arms of the match set head to None.
pop_clears(H, hd) ==
    IF hd = None THEN [heap |-> H, head |-> hd, ret |-> None]
    ELSE [heap |-> RcDrop(H, hd), head |-> None, ret |-> H[hd].value]

\* No is_empty check: unwrap() of an absent head panics (ret -1).
pop_unchecked(H, hd) ==
    IF hd = None THEN [heap |-> H, head |-> hd, ret |-> 0 - 1]
    ELSE LET nx == H[hd].next
             H1 == IF nx = None THEN H ELSE RcClone(H, nx)
         IN  [heap |-> RcDrop(H1, hd), head |-> nx, ret |-> H[hd].value]

\* The old head's next is moved out of the node instead of cloned.
pop_moves_next(H, hd) ==
    IF hd = None THEN [heap |-> H, head |-> hd, ret |-> None]
    ELSE LET nx == H[hd].next
             H1 == [H EXCEPT ![hd].next = None]
         IN  [heap |-> RcDrop(H1, hd), head |-> nx, ret |-> H[hd].value]

\* The new head is taken from next without a new strong reference.
pop_no_clone(H, hd) ==
    IF hd = None THEN [heap |-> H, head |-> hd, ret |-> None]
    ELSE [heap |-> RcDrop(H, hd), head |-> H[hd].next, ret |-> H[hd].value]

\* The old head's handle is never released.
pop_leaks(H, hd) ==
    IF hd = None THEN [heap |-> H, head |-> hd, ret |-> None]
    ELSE LET nx == H[hd].next
             H1 == IF nx = None THEN H ELSE RcClone(H, nx)
         IN  [heap |-> H1, head |-> nx, ret |-> H[hd].value]

\* Variant of pop_match: the Some arm takes no new strong reference.
pop_match_skips(H, head_node) == H

\* The heap after the match on &head_node.next, before head_node goes out of
\* scope: the Some arm has cloned the handle of the next node.
pop_match(H, head_node) ==
    IF H[head_node].next = None THEN H
    ELSE RcClone(H, H[head_node].next)

pop(H, hd) ==
    IF is_empty(hd)
    THEN [heap |-> H, head |-> hd, ret |-> None]
    ELSE LET head_node == hd
             nx == H[head_node].next
             H1 == pop_match(H, head_node)
             val == H1[head_node].value
         IN  [heap |-> RcDrop(H1, head_node), head |-> nx, ret |-> val]

\* Variant of borrow: the reader takes the head out of the stack
\* (self.head.take()) and lets it go.
borrow_takes(H, hd) ==
    IF hd = None THEN [heap |-> H, head |-> hd]
    ELSE [heap |-> RcDrop(H, hd), head |-> None]

\* A reader (&self) borrows the head and the nodes behind it (&self.head,
\* as_ref(), &node.next): no Rc is cloned or dropped and head stays.
borrow(H, hd) == [heap |-> H, head |-> hd]


\* ------------------------------------------------------ the ImmutableNode
IHasFree(H) == \E n \in INodes : ~H[n].live

IFreshNode(H) == CHOOSE n \in INodes :
                     /\ ~H[n].live
                     /\ \A m \in INodes : ~H[m].live => n <= m

\* ImmutableNode::new(value)
ImmutableNode_new(v) == [value |-> v, next |-> None]

\* ImmutableNode::new_with_next(value, next_node): as Node::new_with_next.
ImmutableNode_new_with_next(H, v, next_node) ==
    LET H1 == RcClone(H, next_node)
        H2 == RcDrop(H1, next_node)
    IN  [heap |-> H2, node |-> [value |-> v, next |-> next_node]]

\* Variant of ImmutableNode_eq: the two handles point at the same allocation
\* (Rc::ptr_eq).
ImmutableNode_ptr_eq(H, a, b) == a = b

\* #[derive(PartialEq)]: the fields are compared in order, value == value
\* and next == next; Option compares None with None and Some with Some, and
\* Rc<ImmutableNode<T>> compares the nodes it points at.
RECURSIVE ImmutableNode_eq(_, _, _)
ImmutableNode_eq(H, a, b) ==
    /\ H[a].value = H[b].value
    /\ IF H[a].next = None \/ H[b].next = None
       THEN H[a].next = H[b].next
       ELSE ImmutableNode_eq(H, H[a].next, H[b].next)

ICalled(op, a, b, ret) == [op |-> op, a |-> a, b |-> b, ret |-> ret]

\* ----------------------------------------------------- the call record
Called(op, s, v, ret) == [op |-> op, s |-> s, v |-> v, ret |-> ret]

\* ---------------------------------------------------------------- Init
NoRT == [stage |-> "none"]
NoHist == [ok |-> FALSE, seq |-> <<>>]
QFreeCell == [value |-> None, next |-> None, live |-> FALSE]

Init ==
    /\ heap = [n \in Nodes |-> FreeCell]
    /\ head = [s \in Stacks |-> None]
    /\ scope = [s \in Stacks |-> FALSE]
    /\ ext = {}
    /\ last = Called("init", "A", None, None)
    /\ model = [s \in Stacks |-> <<>>]
    /\ hist = [s \in Stacks |-> NoHist]
    /\ rt = NoRT
    /\ qhead = None
    /\ qtail = None
    /\ qheap = [n \in 1..MaxQueue |-> QFreeCell]
    /\ qmodel = <<>>
    /\ qlast = [op |-> "init", v |-> None, ret |-> None]
    /\ inodes = [n \in INodes |-> FreeCell]
    /\ ilast = ICalled("init", None, None, FALSE)

\* ------------------------------------------------------ stack operations
\* let mut stack = Stack::empty();
StackEmpty(s) ==
    /\ ~scope[s]
    /\ scope' = [scope EXCEPT ![s] = TRUE]
    /\ head' = [head EXCEPT ![s] = Stack_empty]
    /\ last' = Called("empty", s, None, None)
    /\ UNCHANGED <<heap, ext, queueVars, nodeVars>>

\* let mut stack = Stack::new(v);
StackNew(s, v) ==
    /\ ~scope[s]
    /\ HasFree(heap)
    /\ LET r == Stack_new(heap, v)
       IN  /\ heap' = r.heap
           /\ head' = [head EXCEPT ![s] = r.head]
    /\ scope' = [scope EXCEPT ![s] = TRUE]
    /\ last' = Called("new", s, v, None)
    /\ UNCHANGED <<ext, queueVars, nodeVars>>

\* let stack = Stack { head: Some(Rc::clone(&node)) };
StackFromHandle(s, n) ==
    /\ ~scope[s]
    /\ n \in ext
    /\ heap' = RcClone(heap, n)
    /\ head' = [head EXCEPT ![s] = n]
    /\ scope' = [scope EXCEPT ![s] = TRUE]
    /\ last' = Called("from", s, n, None)
    /\ UNCHANGED <<ext, queueVars, nodeVars>>

\* Variant of DropStack: the whole chain of the stack is reclaimed, whoever
\* else holds its nodes.
DropStack_frees_chain(s) ==
    /\ scope[s]
    /\ LET c == walk_loop(heap, head[s], <<>>, MaxNodes).visited
       IN  heap' = [n \in Nodes |->
                      IF n \in {c[i] : i \in 1..Len(c)}
                      THEN FreeCell ELSE heap[n]]
    /\ head' = [head EXCEPT ![s] = None]
    /\ scope' = [scope EXCEPT ![s] = FALSE]
    /\ last' = Called("drop", s, None, None)
    /\ UNCHANGED <<ext, queueVars, nodeVars>>

\* The stack variable goes out of scope: its head field is dropped.
DropStack(s) ==
    /\ scope[s]
    /\ heap' = IF head[s] = None THEN heap ELSE RcDrop(heap, head[s])
    /\ head' = [head EXCEPT ![s] = None]
    /\ scope' = [scope EXCEPT ![s] = FALSE]
    /\ last' = Called("drop", s, None, None)
    /\ UNCHANGED <<ext, queueVars, nodeVars>>

\* stack.push(v): the pool of node cells bounds the allocation.
Push(s, v) ==
    /\ scope[s]
    /\ HasFree(heap)
    /\ LET r == push(heap, head[s], v)
       IN  /\ heap' = r.heap
           /\ head' = [head EXCEPT ![s] = r.head]
    /\ last' = Called("push", s, v, None)
    /\ UNCHANGED <<scope, ext, queueVars, nodeVars>>

\* stack.pop()
Pop(s) ==
    /\ scope[s]
    /\ LET r == pop(heap, head[s])
       IN  /\ heap' = r.heap
           /\ head' = [head EXCEPT ![s] = r.head]
           /\ last' = Called("pop", s, None, r.ret)
    /\ UNCHANGED <<scope, ext, queueVars, nodeVars>>

\* stack.peek()
Peek(s) ==
    /\ scope[s]
    /\ LET r == borrow(heap, head[s])
       IN  /\ heap' = r.heap
           /\ head' = [head EXCEPT ![s] = r.head]
    /\ last' = Called("peek", s, None, peek(heap, head[s]))
    /\ UNCHANGED <<scope, ext, queueVars, nodeVars>>

\* stack.size()
Size(s) ==
    /\ scope[s]
    /\ LET r == borrow(heap, head[s])
       IN  /\ heap' = r.heap
           /\ head' = [head EXCEPT ![s] = r.head]
    /\ last' = Called("size", s, None, size(heap, head[s]))
    /\ UNCHANGED <<scope, ext, queueVars, nodeVars>>

\* stack.to_list()
ToList(s) ==
    /\ scope[s]
    /\ LET r == borrow(heap, head[s])
       IN  /\ heap' = r.heap
           /\ head' = [head EXCEPT ![s] = r.head]
    /\ last' = Called("to_list", s, None, to_list(heap, head[s]))
    /\ UNCHANGED <<scope, ext, queueVars, nodeVars>>

\* ------------------------------------------- node handles held by a caller
\* let node = Rc::new(Node::new(v));
NodeNew(v) ==
    /\ HasFree(heap)
    /\ LET n == FreshNode(heap)
       IN  /\ heap' = RcNew(heap, n, Node_new(v))
           /\ ext' = ext \cup {n}
           /\ last' = Called("node_new", "A", v, n)
    /\ UNCHANGED <<head, scope, queueVars, nodeVars>>

\* let node_2 = Rc::new(Node::new_with_next(v, Rc::clone(&m)));
NodeNewWithNext(v, m) ==
    /\ m \in ext
    /\ HasFree(heap)
    /\ LET r == new_with_next(RcClone(heap, m), v, m)
           n == FreshNode(r.heap)
       IN  /\ heap' = RcNew(r.heap, n, r.node)
           /\ ext' = ext \cup {n}
           /\ last' = Called("node_new_with_next", "A", v, n)
    /\ UNCHANGED <<head, scope, queueVars, nodeVars>>

\* The binding of a node handle goes out of scope.
DropHandle(n) ==
    /\ n \in ext
    /\ heap' = RcDrop(heap, n)
    /\ ext' = ext \ {n}
    /\ last' = Called("node_drop", "A", n, None)
    /\ UNCHANGED <<head, scope, queueVars, nodeVars>>

\* ---------------------------------------------------------------- Queue
\* The repository declares the Queue (head, tail) and its node; enqueue and
\* dequeue are written from section 4.3 of the specification.
QHasFree(Q) == \E n \in DOMAIN Q : ~Q[n].live

QFreshNode(Q) == CHOOSE n \in DOMAIN Q :
                     /\ ~Q[n].live
                     /\ \A m \in DOMAIN Q : ~Q[m].live => n <= m

\* Node::new(value) of the queue's node: Some(value), no next.
QNode_new(v) == [value |-> v, next |-> None, live |-> TRUE]

enqueue(Q, qh, qt, v) ==
    LET n == QFreshNode(Q)
        Q1 == [Q EXCEPT ![n] = QNode_new(v)]
    IN  IF qh = None
        THEN [heap |-> Q1, head |-> n, tail |-> n]
        ELSE [heap |-> [Q1 EXCEPT ![qt].next = n], head |-> qh, tail |-> n]

\* Variant of dequeue: the queue is emptied when head's next is the tail.
dequeue_drops_tail(Q, qh, qt) ==
    IF qh = None
    THEN [heap |-> Q, head |-> qh, tail |-> qt, ret |-> None]
    ELSE LET val == Q[qh].value
             Q1 == [Q EXCEPT ![qh] = QFreeCell]
         IN  IF qh = qt \/ Q[qh].next = qt
             THEN [heap |-> Q1, head |-> None, tail |-> None, ret |-> val]
             ELSE [heap |-> Q1, head |-> Q[qh].next, tail |-> qt, ret |-> val]

dequeue(Q, qh, qt) ==
    IF qh = None
    THEN [heap |-> Q, head |-> qh, tail |-> qt, ret |-> None]
    ELSE LET val == Q[qh].value
             Q1 == [Q EXCEPT ![qh] = QFreeCell]
         IN  IF qh = qt
             THEN [heap |-> Q1, head |-> None, tail |-> None, ret |-> val]
             ELSE [heap |-> Q1, head |-> Q[qh].next, tail |-> qt, ret |-> val]

\* queue.enqueue(v): the pool of node cells bounds the allocation.
Enqueue(v) ==
    /\ QHasFree(qheap)
    /\ LET r == enqueue(qheap, qhead, qtail, v)
       IN  /\ qheap' = r.heap
           /\ qhead' = r.head
           /\ qtail' = r.tail
    /\ qmodel' = Append(qmodel, v)
    /\ qlast' = [op |-> "enqueue", v |-> v, ret |-> None]
    /\ UNCHANGED <<stackVars, nodeVars>>

\* queue.dequeue()
Dequeue ==
    /\ LET r == dequeue(qheap, qhead, qtail)
       IN  /\ qheap' = r.heap
           /\ qhead' = r.head
           /\ qtail' = r.tail
           /\ qlast' = [op |-> "dequeue", v |-> None, ret |-> r.ret]
    /\ qmodel' = IF qmodel = <<>> THEN qmodel ELSE Tail(qmodel)
    /\ UNCHANGED <<stackVars, nodeVars>>

\* ------------------------------------------------------ history variables
\* Each is a function of the call just made (last') and the state before it.
\* The reference LIFO sequence: push prepends, pop removes the first element.
ModelUpdate ==
    LET s == last'.s
    IN  CASE last'.op = "empty" -> [model EXCEPT ![s] = <<>>]
          [] last'.op = "new" -> [model EXCEPT ![s] = <<last'.v>>]
          [] last'.op = "from" -> [model EXCEPT ![s] = to_list(heap, last'.v)]
          [] last'.op = "drop" -> [model EXCEPT ![s] = <<>>]
          [] last'.op = "push" -> [model EXCEPT ![s] = <<last'.v>> \o @]
          [] last'.op = "pop" ->
                [model EXCEPT ![s] = IF @ = <<>> THEN @ ELSE Tail(@)]
          [] OTHER -> model

\* The values pushed, in order, onto a stack made by Stack::empty().
HistUpdate ==
    LET s == last'.s
    IN  CASE last'.op = "empty" -> [hist EXCEPT ![s] = [ok |-> TRUE, seq |-> <<>>]]
          [] last'.op = "push" ->
                [hist EXCEPT ![s] = IF @.ok THEN [@ EXCEPT !.seq = Append(@, last'.v)]
                                    ELSE @]
          [] OTHER -> hist

\* What the stack looked like before a push, kept over the pop that follows
\* the push immediately.
RtUpdate ==
    LET s == last'.s
    IN  CASE last'.op = "push" ->
                [stage |-> "pushed", s |-> s, x |-> last'.v,
                 list |-> to_list(heap, head[s]), size |-> size(heap, head[s]),
                 head |-> head[s]]
          [] last'.op = "pop" /\ rt.stage = "pushed" /\ rt.s = s ->
                [rt EXCEPT !.stage = "popped"]
          [] OTHER -> NoRT

ObserveModel == model' = ModelUpdate /\ UNCHANGED <<hist, rt>>
ObserveRT == rt' = RtUpdate /\ UNCHANGED <<model, hist>>
ObserveHist == hist' = HistUpdate /\ UNCHANGED <<model, rt>>

\* ------------------------------------------------------- specifications
\* Any caller of the stack module, with the reference LIFO sequence.
Next ==
    \/ \E s \in Stacks : StackEmpty(s) /\ ObserveModel
    \/ \E s \in Stacks, v \in Values : StackNew(s, v) /\ ObserveModel
    \/ \E s \in Stacks, n \in Nodes : StackFromHandle(s, n) /\ ObserveModel
    \/ \E s \in Stacks : DropStack(s) /\ ObserveModel
    \/ \E s \in Stacks, v \in Values : Push(s, v) /\ ObserveModel
    \/ \E s \in Stacks : Pop(s) /\ ObserveModel
    \/ \E s \in Stacks : Peek(s) /\ ObserveModel
    \/ \E s \in Stacks : Size(s) /\ ObserveModel
    \/ \E s \in Stacks : ToList(s) /\ ObserveModel
    \/ \E v \in Values : NodeNew(v) /\ ObserveModel
    \/ \E v \in Values, m \in Nodes : NodeNewWithNext(v, m) /\ ObserveModel
    \/ \E n \in Nodes : DropHandle(n) /\ ObserveModel

Spec == Init /\ [][Next]_vars

\* The same caller, observed for push immediately followed by pop.
NextRT ==
    \/ \E s \in Stacks : StackEmpty(s) /\ ObserveRT
    \/ \E s \in Stacks, v \in Values : StackNew(s, v) /\ ObserveRT
    \/ \E s \in Stacks, n \in Nodes : StackFromHandle(s, n) /\ ObserveRT
    \/ \E s \in Stacks : DropStack(s) /\ ObserveRT
    \/ \E s \in Stacks, v \in Values : Push(s, v) /\ ObserveRT
    \/ \E s \in Stacks : Pop(s) /\ ObserveRT
    \/ \E s \in Stacks : Peek(s) /\ ObserveRT
    \/ \E s \in Stacks : Size(s) /\ ObserveRT
    \/ \E s \in Stacks : ToList(s) /\ ObserveRT
    \/ \E v \in Values : NodeNew(v) /\ ObserveRT
    \/ \E v \in Values, m \in Nodes : NodeNewWithNext(v, m) /\ ObserveRT
    \/ \E n \in Nodes : DropHandle(n) /\ ObserveRT

SpecRT == Init /\ [][NextRT]_vars

\* A caller that only makes empty stacks, pushes onto them and reads them.
NextPush ==
    \/ \E s \in Stacks : StackEmpty(s) /\ ObserveHist
    \/ \E s \in Stacks, v \in Values : Push(s, v) /\ ObserveHist
    \/ \E s \in Stacks : Size(s) /\ ObserveHist
    \/ \E s \in Stacks : ToList(s) /\ ObserveHist

SpecPush == Init /\ [][NextPush]_vars

\* A caller outside the crate: Node and the head field are private, so it can
\* only make stacks, call their methods and let them go out of scope.
NextPublic ==
    \/ \E s \in Stacks : StackEmpty(s) /\ ObserveModel
    \/ \E s \in Stacks, v \in Values : StackNew(s, v) /\ ObserveModel
    \/ \E s \in Stacks : DropStack(s) /\ ObserveModel
    \/ \E s \in Stacks, v \in Values : Push(s, v) /\ ObserveModel
    \/ \E s \in Stacks : Pop(s) /\ ObserveModel
    \/ \E s \in Stacks : Peek(s) /\ ObserveModel
    \/ \E s \in Stacks : Size(s) /\ ObserveModel
    \/ \E s \in Stacks : ToList(s) /\ ObserveModel

SpecPublic == Init /\ [][NextPublic]_vars

\* ------------------------------------------- ImmutableNode operations
\* let node = Rc::new(ImmutableNode::new(v));
INodeNew(v) ==
    /\ IHasFree(inodes)
    /\ LET n == IFreshNode(inodes)
       IN  /\ inodes' = RcNew(inodes, n, ImmutableNode_new(v))
           /\ ilast' = ICalled("new", n, None, FALSE)
    /\ UNCHANGED <<stackVars, queueVars>>

\* let node = Rc::new(ImmutableNode::new_with_next(v, Rc::clone(&m)));
INodeNewWithNext(v, m) ==
    /\ inodes[m].live
    /\ IHasFree(inodes)
    /\ LET r == ImmutableNode_new_with_next(RcClone(inodes, m), v, m)
           n == IFreshNode(r.heap)
       IN  /\ inodes' = RcNew(r.heap, n, r.node)
           /\ ilast' = ICalled("new_with_next", n, m, FALSE)
    /\ UNCHANGED <<stackVars, queueVars>>

\* a == b, on two node handles (assert_eq!(node.next.unwrap(), tail_node)).
INodeEq(a, b) ==
    /\ inodes[a].live
    /\ inodes[b].live
    /\ ilast' = ICalled("eq", a, b, ImmutableNode_eq(inodes, a, b))
    /\ UNCHANGED <<inodes, stackVars, queueVars>>

\* A caller that builds chains of ImmutableNode and compares them.
NextINode ==
    \/ \E v \in IValues : INodeNew(v)
    \/ \E v \in IValues, m \in INodes : INodeNewWithNext(v, m)
    \/ \E a \in INodes, b \in INodes : INodeEq(a, b)

SpecINode == Init /\ [][NextINode]_vars

\* A caller of the queue.
NextQueue ==
    \/ \E v \in Values : Enqueue(v)
    \/ Dequeue

SpecQueue == Init /\ [][NextQueue]_vars

\* ================================================================ claims
RECURSIVE Reverse(_)
Reverse(seq) == IF seq = <<>> THEN <<>>
                ELSE Append(Reverse(Tail(seq)), Head(seq))

First(seq) == IF seq = <<>> THEN None ELSE Head(seq)

\* The nodes on the chain that starts at hd.
RECURSIVE Reach(_, _)
Reach(H, hd) == IF hd = None \/ ~H[hd].live THEN {}
                ELSE {hd} \cup Reach(H, H[hd].next)

\* The handles that reference node n: stack heads, next slots of live nodes
\* and the caller's bindings.
Holders(n) ==
    Cardinality({s \in Stacks : scope[s] /\ head[s] = n})
    + Cardinality({m \in Nodes : heap[m].live /\ heap[m].next = n})
    + (IF n \in ext THEN 1 ELSE 0)

\* C1: after pushing v1..vn in order onto Stack::empty(), to_list() is
\* <<vn, ..., v1>> and size() is n, both as the state of the stack and as the
\* values the two calls return.
PushOrder ==
    /\ \A s \in Stacks : hist[s].ok =>
          /\ to_list(heap, head[s]) = Reverse(hist[s].seq)
          /\ size(heap, head[s]) = Len(hist[s].seq)
    /\ last.op = "to_list" => last.ret = Reverse(hist[last.s].seq)
    /\ last.op = "size" => last.ret = Len(hist[last.s].seq)

PushOrderWitness ==
    /\ last.op = "to_list"
    /\ Len(hist[last.s].seq) = 2
    /\ hist[last.s].seq[1] # hist[last.s].seq[2]
    /\ last.ret = <<hist[last.s].seq[2], hist[last.s].seq[1]>>

\* C2: the stack refines the reference LIFO sequence: in every state size(),
\* peek() and to_list() are its length, first element and contents, and every
\* pop() returns its first element (None when it is empty).
LifoRefines ==
    \A s \in Stacks : scope[s] =>
        /\ size(heap, head[s]) = Len(model[s])
        /\ peek(heap, head[s]) = First(model[s])
        /\ to_list(heap, head[s]) = model[s]

LifoPop == last'.op = "pop" => last'.ret = First(model[last'.s])

LifoLaw == []LifoRefines /\ [][LifoPop]_vars

\* empty -> push(100) -> push(200) -> pop() ... : the pop returned 200 and
\* left <<100>>.
LifoWitness ==
    /\ last.op = "pop" /\ last.s = "A" /\ last.ret = 200
    /\ model["A"] = <<100>>
    /\ to_list(heap, head["A"]) = <<100>>

\* C3: pop() right after push(x) returns x and restores size(), to_list()
\* and the head node of the state before the push.
RoundTrip ==
    rt.stage = "popped" =>
        /\ last.ret = rt.x
        /\ size(heap, head[rt.s]) = rt.size
        /\ to_list(heap, head[rt.s]) = rt.list
        /\ head[rt.s] = rt.head

RoundTripWitness ==
    /\ rt.stage = "popped"
    /\ rt.size = 1
    /\ last.ret = rt.x
    /\ heap[rt.head].strong = 2

\* C4: pop() on an empty stack returns None and changes neither the stack nor
\* any node (so neither a reference count), however often it is called.
PopEmptyStep ==
    \A s \in Stacks :
        (last'.op = "pop" /\ last'.s = s /\ head[s] = None) =>
            /\ last'.ret = None
            /\ head' = head
            /\ heap' = heap
            /\ size(heap', head'[s]) = 0

PopEmpty == [][PopEmptyStep]_vars

PopEmptyWitness ==
    /\ last.op = "pop" /\ last.s = "B" /\ last.ret = None
    /\ head["B"] = None
    /\ scope["B"]
    /\ \E n \in Nodes : heap[n].live

\* C5: a push or pop on one stack leaves to_list() of every other stack
\* unchanged, whether or not the two share nodes (so any sequence of them
\* does).
SharingStep ==
    \A a \in Stacks, b \in Stacks :
        (a # b /\ scope[b] /\ last'.op \in {"push", "pop"} /\ last'.s = a) =>
            to_list(heap', head'[b]) = to_list(heap, head[b])

Sharing == [][SharingStep]_vars

\* A has just popped its own head and now starts at the node B starts at.
SharingWitness ==
    /\ last.op = "pop" /\ last.s = "A" /\ last.ret # None
    /\ scope["B"]
    /\ head["B"] # None
    /\ head["B"] \in Reach(heap, head["A"])
    /\ to_list(heap, head["B"]) # <<>>

\* C6: peek() returns the first element of to_list() (None iff the stack is
\* empty), leaves size() and to_list() as they were, and returns the same
\* when called again.
PeekStep ==
    \A s \in Stacks :
        (last'.op = "peek" /\ last'.s = s) =>
            /\ last'.ret = First(to_list(heap, head[s]))
            /\ (last'.ret = None) <=> (size(heap, head[s]) = 0)
            /\ size(heap', head'[s]) = size(heap, head[s])
            /\ to_list(heap', head'[s]) = to_list(heap, head[s])
            /\ peek(heap', head'[s]) = last'.ret

PeekPure == [][PeekStep]_vars

PeekWitness ==
    /\ last.op = "peek"
    /\ last.ret = 200
    /\ to_list(heap, head[last.s]) = <<200, 100>>

\* C7: a node is live exactly while it has holders, and its strong count is
\* the number of its holders.
RefCount ==
    \A n \in Nodes :
        /\ heap[n].strong = Holders(n)
        /\ heap[n].live <=> Holders(n) > 0

\* node_2, whose next is node_1, has been dropped: node_1 is held by its
\* binding alone.
RefCountWitness ==
    /\ last.op = "node_drop" /\ last.v = 2
    /\ ~heap[2].live
    /\ heap[1].live /\ heap[1].strong = 1 /\ 1 \in ext

\* C8: every dequeue() returns the oldest value enqueued and not yet
\* dequeued (None when there is none), and the chain from head to tail holds
\* those values, oldest first.
RECURSIVE q_to_list(_, _)
q_to_list(Q, qh) == IF qh = None THEN <<>>
                    ELSE <<Q[qh].value>> \o q_to_list(Q, Q[qh].next)

FifoChain ==
    /\ q_to_list(qheap, qhead) = qmodel
    /\ (qhead = None) <=> (qtail = None)
    /\ qtail # None => qheap[qtail].next = None

FifoDequeue == qlast'.op = "dequeue" => qlast'.ret = First(qmodel)

Fifo == []FifoChain /\ [][FifoDequeue]_vars

\* enqueue(100), enqueue(200), enqueue(300), dequeue(): 100 came out first.
FifoWitness ==
    /\ qlast.op = "dequeue" /\ qlast.ret = 100
    /\ qmodel = <<200, 300>>
    /\ qhead # qtail

\* C9: pop() on a non-empty stack makes head the old head's next and lowers
\* the old head's count by one: at zero the node is reclaimed, otherwise it
\* stays live with its value and next.
PopStep ==
    \A s \in Stacks :
        (last'.op = "pop" /\ last'.s = s /\ head[s] # None) =>
            LET h == head[s]
            IN  /\ head'[s] = heap[h].next
                /\ heap'[h].strong = heap[h].strong - 1
                /\ heap[h].strong = 1 => ~heap'[h].live
                /\ heap[h].strong > 1 =>
                      /\ heap'[h].live
                      /\ heap'[h].value = heap[h].value
                      /\ heap'[h].next = heap[h].next

PopRelease == [][PopStep]_vars

\* The popped node is also held by a binding: it survives with count 1.
PopReleaseWitness ==
    /\ last.op = "pop"
    /\ last.ret = 100
    /\ head[last.s] = None
    /\ \E n \in ext : heap[n].live /\ heap[n].strong = 1 /\ heap[n].value = 100

\* C10: push(v) allocates one node holding v with count 1 whose next is the
\* node that was the head (None on an empty stack), and changes no other
\* node: the previous head keeps its count.
PushStep ==
    \A s \in Stacks :
        (last'.op = "push" /\ last'.s = s) =>
            LET h == head[s]
                n == head'[s]
            IN  /\ n # None
                /\ ~heap[n].live
                /\ heap'[n] = [value |-> last'.v, next |-> h,
                               strong |-> 1, live |-> TRUE]
                /\ \A m \in Nodes \ {n} : heap'[m] = heap[m]

PushLink == [][PushStep]_vars

\* A push onto a stack whose head is shared with another holder.
PushLinkWitness ==
    /\ last.op = "push"
    /\ head[last.s] # None
    /\ heap[head[last.s]].next # None
    /\ heap[heap[head[last.s]].next].strong = 2

\* C11 as stated: whoever calls new_with_next keeps its own reference to
\* the node passed and sees that node's count go up by one. push calls it
\* with the head it took out of the stack.
NewWithNextStated ==
    /\ last'.op = "node_new_with_next" =>
          \E m \in ext :
              /\ heap'[last'.ret].next = m
              /\ m \in ext'
              /\ heap'[m].strong = heap[m].strong + 1
    /\ (last'.op = "push" /\ head[last'.s] # None) =>
          heap'[head[last'.s]].strong = heap[head[last'.s]].strong + 1

NewWithNextKeepsCaller == [][NewWithNextStated]_vars

\* C11, amended: new_with_next stores a new shared reference in next and
\* releases the handle it was passed, so by itself it leaves the count as it
\* was. A caller that passes a clone of its handle keeps the handle and sees
\* the count one higher (2 for a node held by its creator and linked, 1 for
\* the linking node); push passes the stack's own handle, which is consumed,
\* and the count stays.
NewWithNextFn ==
    \A m \in Nodes, v \in Values :
        heap[m].live =>
            LET r == new_with_next(heap, v, m)
            IN  /\ r.node = [value |-> v, next |-> m]
                /\ r.heap = heap

NewWithNextStep ==
    /\ last'.op = "node_new_with_next" =>
          \E m \in ext :
              /\ heap'[last'.ret] = [value |-> last'.v, next |-> m,
                                     strong |-> 1, live |-> TRUE]
              /\ last'.ret \in ext'
              /\ m \in ext'
              /\ heap'[m] = [heap[m] EXCEPT !.strong = @ + 1]
    /\ (last'.op = "push" /\ head[last'.s] # None) =>
          LET h == head[last'.s]
          IN  /\ heap'[head'[last'.s]].next = h
              /\ head'[last'.s] # h
              /\ heap'[h] = heap[h]

NewWithNext == []NewWithNextFn /\ [][NewWithNextStep]_vars

\* node_1 held by its binding and by node_2.next, node_2 by its binding.
NewWithNextWitness ==
    /\ last.op = "node_new_with_next"
    /\ ext = {1, 2}
    /\ heap[2].next = 1
    /\ heap[1].strong = 2
    /\ heap[2].strong = 1

\* C12: peek(), size() and to_list() leave the count of every node as it
\* was (and every node and head with it), shared head or not.
ReadStep ==
    last'.op \in {"peek", "size", "to_list"} =>
        /\ \A n \in Nodes : heap'[n].strong = heap[n].strong
        /\ heap' = heap
        /\ head' = head

ReadKeepsCounts == [][ReadStep]_vars

\* The head is held by the stack and by a binding; peek returned its value.
ReadKeepsCountsWitness ==
    /\ last.op = "peek"
    /\ last.ret = 100
    /\ head[last.s] \in ext
    /\ heap[head[last.s]].strong = 2

\* C13: no step changes the value or the next of a node that exists before
\* and after it: a node keeps both from its creation until it is reclaimed.
PersistStep ==
    \A n \in Nodes :
        (heap[n].live /\ heap'[n].live) =>
            /\ heap'[n].value = heap[n].value
            /\ heap'[n].next = heap[n].next

Persistence == [][PersistStep]_vars

\* A pop left behind a node that another holder keeps, with its next.
PersistenceWitness ==
    /\ last.op = "pop"
    /\ last.ret # None
    /\ \E n \in Nodes :
          /\ heap[n].live
          /\ heap[n].value = last.ret
          /\ heap[n].next = head[last.s]
          /\ heap[n].next # None

\* C14: the chain from head is finite and acyclic, size() is the number of
\* its nodes and the length of to_list(), to_list() holds the nodes' values
\* head to tail, and is_empty() iff head is absent iff size() is 0.
ChainShape ==
    \A s \in Stacks :
        scope[s] =>
            LET w == walk_loop(heap, head[s], <<>>, MaxNodes)
                k == Len(w.visited)
            IN  /\ w.rest = None
                /\ \A i \in 1..k, j \in 1..k : i # j => w.visited[i] # w.visited[j]
                /\ \A i \in 1..k : heap[w.visited[i]].live
                /\ size(heap, head[s]) = k
                /\ Len(to_list(heap, head[s])) = k
                /\ to_list(heap, head[s]) = [i \in 1..k |-> heap[w.visited[i]].value]
                /\ is_empty(head[s]) <=> head[s] = None
                /\ head[s] = None <=> size(heap, head[s]) = 0

\* size() has just returned 2 for a stack holding 200, 100.
ChainShapeWitness ==
    /\ last.op = "size"
    /\ last.ret = 2
    /\ to_list(heap, head[last.s]) = <<200, 100>>
    /\ heap[head[last.s]].next # None

\* C15: when a stack goes out of scope its head's count drops by one; the
\* nodes reclaimed are the head, if the stack was its only holder, and after
\* it every node of the chain whose predecessors were all reclaimed and that
\* had no other holder; every other node keeps its count, value and next, so
\* a co-owned node stays valid with its chain intact.
DropStackStep ==
    \A s \in Stacks :
        (last'.op = "drop" /\ last'.s = s /\ head[s] # None) =>
            LET c == walk_loop(heap, head[s], <<>>, MaxNodes).visited
                Gone(i) == \A j \in 1..i : heap[c[j]].strong = 1
                OnChain == {c[i] : i \in 1..Len(c)}
            IN  /\ heap'[head[s]].strong = heap[head[s]].strong - 1
                /\ \A i \in 1..Len(c) :
                      IF Gone(i) THEN heap'[c[i]] = FreeCell
                      ELSE /\ heap'[c[i]].live
                           /\ heap'[c[i]].strong >= 1
                           /\ heap'[c[i]].strong =
                                 heap[c[i]].strong
                                 - (IF i = 1 \/ Gone(i - 1) THEN 1 ELSE 0)
                           /\ to_list(heap', c[i]) = to_list(heap, c[i])
                /\ \A n \in Nodes \ OnChain : heap'[n] = heap[n]

DropStackRelease == [][DropStackStep]_vars

\* The stack that went out of scope shared its head with a binding: the node
\* is left with the binding's reference.
DropStackWitness ==
    /\ last.op = "drop"
    /\ \E n \in ext :
          /\ heap[n].live
          /\ heap[n].strong = 1
          /\ heap[n].next = None
    /\ \E m \in Nodes : ~heap[m].live

\* C16: the state machine of a Stack.  In every reachable state pop is enabled
\* on every stack in scope and so is push (while the node pool has a free
\* cell); push leads to a non-empty stack; pop from the empty stack leaves it
\* empty; pop from a non-empty stack leads to the empty stack exactly when
\* size() was 1.
NoStuckState ==
    \A s \in Stacks :
        scope[s] =>
            /\ ENABLED Pop(s)
            /\ HasFree(heap) => \A v \in Values : ENABLED Push(s, v)

MachineStep ==
    \A s \in Stacks :
        /\ (last'.op = "push" /\ last'.s = s) =>
              /\ ~is_empty(head'[s])
              /\ size(heap', head'[s]) >= 1
        /\ (last'.op = "pop" /\ last'.s = s /\ is_empty(head[s])) =>
              is_empty(head'[s])
        /\ (last'.op = "pop" /\ last'.s = s /\ ~is_empty(head[s])) =>
              (is_empty(head'[s]) <=> size(heap, head[s]) = 1)

StateMachine == []NoStuckState /\ [][MachineStep]_vars

\* A pop took the top of a two-node stack and left a one-node stack.
StateMachineWitness ==
    /\ last.op = "pop"
    /\ last.ret # None
    /\ scope[last.s]
    /\ ~is_empty(head[last.s])
    /\ size(heap, head[last.s]) = 1

\* C17: every Stack operation is total and terminates.  The loop of size()
\* and to_list() leaves through its None arm after at most as many iterations
\* as there are live nodes, having visited each node of the chain exactly
\* once; size, to_list, peek and pop are enabled on every stack in scope;
\* push, pop and peek touch at most two heap cells and reclaim at most one
\* node, whatever the length of the chain, and return a value or None.
LoopTerminates ==
    \A s \in Stacks :
        scope[s] =>
            LET budget == Cardinality({n \in Nodes : heap[n].live})
                w == walk_loop(heap, head[s], <<>>, budget)
                k == Len(w.visited)
            IN  /\ w.rest = None
                /\ k <= budget
                /\ {w.visited[i] : i \in 1..k} = Reach(heap, head[s])
                /\ Cardinality(Reach(heap, head[s])) = k
                /\ ENABLED Size(s)
                /\ ENABLED ToList(s)
                /\ ENABLED Peek(s)
                /\ ENABLED Pop(s)

BoundedStep ==
    (last'.op \in {"push", "pop", "peek"}) =>
        /\ Cardinality({n \in Nodes : heap'[n] # heap[n]}) <= 2
        /\ Cardinality({n \in Nodes : heap[n].live /\ ~heap'[n].live}) <= 1
        /\ last'.op \in {"pop", "peek"} => last'.ret \in Values \cup {None}
        /\ last'.op = "push" =>
              Cardinality({n \in Nodes : ~heap[n].live /\ heap'[n].live}) = 1

Termination == []LoopTerminates /\ [][BoundedStep]_vars

\* to_list() has just walked a two-node chain to its end.
TerminationWitness ==
    /\ last.op = "to_list"
    /\ last.ret = <<300, 200>>
    /\ walk_loop(heap, head[last.s], <<>>, MaxNodes).visited
           = <<head[last.s], heap[head[last.s]].next>>

\* C18: pop() on a stack whose old head has a next node N.  After the match
\* and before the old head is released N's count is one higher than before
\* the call.  After the call N's count is unchanged if the old head was
\* reclaimed (the stack was its only holder) and one higher if the old head
\* survives: N is then held by the old head's next slot and by the stack.
PopNextStep ==
    \A s \in Stacks :
        (/\ last'.op = "pop"
         /\ last'.s = s
         /\ ~is_empty(head[s])
         /\ heap[head[s]].next # None) =>
            LET old == head[s]
                N == heap[old].next
                mid == pop_match(heap, old)
            IN  /\ mid[N].strong = heap[N].strong + 1
                /\ \A n \in Nodes \ {N} : mid[n] = heap[n]
                /\ heap' = RcDrop(mid, old)
                /\ head'[s] = N
                /\ heap[old].strong = 1 =>
                      /\ ~heap'[old].live
                      /\ heap'[N].strong = heap[N].strong
                /\ heap[old].strong > 1 =>
                      /\ heap'[old].live
                      /\ heap'[old].next = N
                      /\ heap'[N].strong = heap[N].strong + 1
                      /\ heap'[N].strong >= 2

PopNextCount == [][PopNextStep]_vars

\* A pop left the old head alive in a caller's binding: the next node is now
\* held twice, by the old head and by the stack.
PopNextCountWitness ==
    /\ last.op = "pop"
    /\ head[last.s] # None
    /\ heap[head[last.s]].strong = 2
    /\ \E old \in ext :
          /\ heap[old].live
          /\ heap[old].next = head[last.s]
          /\ heap[old].value = last.ret

\* C19: a caller that uses only the public Stack interface never shares a
\* node: between operations every live node has reference count exactly 1
\* and no caller binding, distinct stacks reach disjoint sets of nodes, and
\* every pop() of a non-empty stack reclaims the node it removes.
NoSharing ==
    /\ ext = {}
    /\ \A n \in Nodes : heap[n].live => heap[n].strong = 1
    /\ \A n \in Nodes : heap[n].live => Holders(n) = 1
    /\ \A s \in Stacks, t \in Stacks :
          (s # t /\ scope[s] /\ scope[t]) =>
              Reach(heap, head[s]) \cap Reach(heap, head[t]) = {}

PopReclaimsStep ==
    \A s \in Stacks :
        (last'.op = "pop" /\ last'.s = s /\ ~is_empty(head[s])) =>
            /\ ~heap'[head[s]].live
            /\ {n \in Nodes : heap[n].live /\ ~heap'[n].live} = {head[s]}

PublicNoSharing == []NoSharing /\ [][PopReclaimsStep]_vars

\* The last pop took 200 off a two-node stack: the old head was reclaimed and
\* the node holding 100 is the only live node.
PublicNoSharingWitness ==
    /\ last.op = "pop"
    /\ last.ret = 200
    /\ head[last.s] # None
    /\ heap[head[last.s]].value = 100
    /\ Cardinality({n \in Nodes : heap[n].live}) = 1

\* The values along the chain of ImmutableNodes that starts at n.
RECURSIVE ChainValues(_, _)
ChainValues(H, n) ==
    IF n = None THEN <<>> ELSE <<H[n].value>> \o ChainValues(H, H[n].next)

\* C20: node equality is structural, not by reference.  Two nodes are equal
\* iff their values are equal and their next chains are recursively equal
\* (both absent, or both present and equal), which is iff they carry the same
\* values in the same order, whichever allocations the chains are made of;
\* and every comparison a caller made returned exactly that.
StructuralEq ==
    /\ \A a \in INodes, b \in INodes :
          (inodes[a].live /\ inodes[b].live) =>
              LET na == inodes[a].next
                  nb == inodes[b].next
              IN  /\ ImmutableNode_eq(inodes, a, b) <=>
                        ChainValues(inodes, a) = ChainValues(inodes, b)
                  /\ ImmutableNode_eq(inodes, a, b) <=>
                        /\ inodes[a].value = inodes[b].value
                        /\ \/ na = None /\ nb = None
                           \/ /\ na # None
                              /\ nb # None
                              /\ ImmutableNode_eq(inodes, na, nb)
                  /\ a = b => ImmutableNode_eq(inodes, a, b)
    /\ ilast.op = "eq" =>
          ilast.ret = (ChainValues(inodes, ilast.a) = ChainValues(inodes, ilast.b))

\* A freshly built chain 200 -> 100 was compared with another chain
\* 200 -> 100 made of other nodes, whose tail is shared with a binding, and
\* they were equal.
StructuralEqWitness ==
    /\ ilast.op = "eq"
    /\ ilast.ret = TRUE
    /\ ilast.a # ilast.b
    /\ ChainValues(inodes, ilast.a) = <<200, 100>>
    /\ inodes[ilast.a].next # inodes[ilast.b].next
    /\ inodes[inodes[ilast.b].next].strong = 2

====
